---- MODULE Spec2Model ----
(***************************************************************************)
(* Model of the lead enrichment engine (src/transform/assignment_handler.py)*)
(* of the ingestion handler that feeds it (src/ingest/webhook_handler.py)  *)
(* and of clean_email (src/lambdas/refinement/lambda_function.py).         *)
(*                                                                         *)
(* Strings are sequences of tokens (concatenation is \o), a path segment   *)
(* is the sequence of strings obtained by splitting it on "=", and an      *)
(* object key is the sequence of segments obtained by splitting it on "/". *)
(* JSON null and an absent dict entry read through dict.get() are both     *)
(* the value Null.                                                          *)
(***************************************************************************)
EXTENDS Integers, Sequences, FiniteSets, TLC

VARIABLES
    SKIP_OWNER_LOOKUP,  \* module constant read from the environment
    SLACK_SECRET_NAME,  \* module constant read from the environment ("None": unset)
    raw,                \* raw bucket: key -> stored envelope
    curated,            \* curated bucket: key -> EnrichedLead
    errors,             \* error bucket: key -> ErrorArtifact
    now,                \* clock read by _now_iso; it advances between deliveries
    ingests,            \* number of webhook calls stored by the ingestion handler so far
    deliveries,         \* number of queue deliveries handed to lambda_handler so far
    event,              \* the delivery being handled: its message records
    pc,                 \* position of lambda_handler
    ri,                 \* index of the message record being handled
    ki,                 \* index of the object key being handled in that record
    loc,                \* locals of lambda_handler for the current key
    fetch,              \* locals of fetch_owner_json for the current key
    seen,               \* keys taken from the event in this delivery, with their fate
    trace,              \* outbound calls made for the current key, in order
    result,             \* how the delivery ended
    cls,                \* the error handed to classify_lookup_error and its verdict
    email,              \* the value handed to clean_email and what it returned
    peer                \* a second, concurrent call of lambda_handler: its position and locals

vars == <<SKIP_OWNER_LOOKUP, SLACK_SECRET_NAME, raw, curated, errors, now, ingests,
          deliveries, event, pc, ri, ki, loc, fetch, seen, trace, result, cls, email,
          peer>>

----------------------------------------------------------------------------
(* Bounds *)

MaxDeliveries == 2
MaxRecords == 2
MaxKeys == 2
MaxIngests == 1

\* the delivery-count ceiling of the queue: a message that was delivered this
\* many times without being acknowledged is moved to the dead-letter queue
MaxReceives == 2

----------------------------------------------------------------------------
(* Values *)

Null == <<"None">>

Leads == {<<"L1">>, <<"L2">>}

Today == <<"2024-03-01">>

RAW_PREFIX == <<<<<<"crm">>>>, <<<<"lead_created">>>>>>

\* the curated artifacts kept in a folder of the raw prefix
CURATED_PREFIX_UnderRaw == <<<<<<"crm">>>>, <<<<"lead_created">>>>, <<<<"enriched">>>>>>

CURATED_PREFIX == <<<<<<"crm">>>>, <<<<"lead_enriched">>>>>>

ERR_PREFIX == <<<<<<"crm">>>>, <<<<"errors">>>>>>

RETRY_TRANSIENT == 2

\* f"{RAW_PREFIX}/dt={day}/lead_id={lead_id}/crm_event_{lead_id}.json"
IngestKey(day, lead_id) ==
    RAW_PREFIX \o << <<<<"dt">>, day>>, <<<<"lead_id">>, lead_id>>,
                     << <<"crm_event_">> \o lead_id \o <<".json">> >> >>

\* a curated key that carries the time of the write
out_key_Stamped(day, lead_id) ==
    CURATED_PREFIX \o << <<<<"dt">>, day>>, <<<<"lead_id">>, lead_id>>,
                         << <<"lead_">> \o lead_id \o <<"_", ToString(now), ".json">> >> >>

\* f"{CURATED_PREFIX}/dt={day}/lead_id={lead_id}/lead_{lead_id}.json"
out_key(day, lead_id) ==
    CURATED_PREFIX \o << <<<<"dt">>, day>>, <<<<"lead_id">>, lead_id>>,
                         << <<"lead_">> \o lead_id \o <<".json">> >> >>

\* f"{ERR_PREFIX}/dt={day}/lead_id={lead_id}/owner_lookup_failed.json"
err_key(day, lead_id) ==
    ERR_PREFIX \o << <<<<"dt">>, day>>, <<<<"lead_id">>, lead_id>>,
                     << <<"owner_lookup_failed.json">> >> >>

----------------------------------------------------------------------------
(* Exceptions.  An exception is its class and, for HTTPError, its status   *)
(* code.  HTTPError is a subclass of URLError; TimeoutError (socket.timeout*)
(* raised while the response is read) is not.                              *)

Exc(c, n) == [cls |-> c, code |-> n]

isinstance(err, c) ==
    \/ err.cls = c
    \/ c = "URLError" /\ err.cls = "HTTPError"
    \/ c = "OSError" /\ err.cls \in {"HTTPError", "URLError", "TimeoutError",
                                      "ConnectionResetError"}
    \/ c = "Exception"

classify_lookup_error(err) ==
    IF isinstance(err, "HTTPError") /\ 400 <= err.code /\ err.code < 500
      THEN "permanent"
    ELSE IF isinstance(err, "HTTPError") /\ 500 <= err.code /\ err.code < 600
      THEN "transient"
    ELSE IF isinstance(err, "URLError")
      THEN "transient"
    ELSE "unknown"

\* what urlopen(owner_url, timeout=5) and json.loads(resp.read()) can raise
LookupErrors ==
    { Exc("HTTPError", 404), Exc("HTTPError", 503),
      Exc("URLError", 0), Exc("TimeoutError", 0) }

\* the JSON object the owner directory answers with: {lead_email?, lead_owner?, funnel?}
OwnerPayloads ==
    { [lead_email |-> Null, lead_owner |-> Null, funnel |-> Null],
      [lead_email |-> <<"a@x.com">>, lead_owner |-> <<"alice">>, funnel |-> <<"inbound">>] }

EmptyDict == [lead_email |-> Null, lead_owner |-> Null, funnel |-> Null]

----------------------------------------------------------------------------
(* Object keys named by the events of the queue *)

startswith_RAW_PREFIX(key) ==
    /\ Len(key) >= 3
    /\ key[1] = RAW_PREFIX[1]
    /\ key[2] = RAW_PREFIX[2]

\* the guards of lines 127-132: TRUE when the key is passed over with `continue`
IsSkipped(key) ==
    \/ ~ startswith_RAW_PREFIX(key)
    \/ LET parts == key
       IN  Len(parts) < 5 \/ parts[1] # <<<<"crm">>>> \/ parts[2] # <<<<"lead_created">>>>

\* part.split("=", 1)[1]: IndexError when the segment holds no "="
HasValue(part) == Len(part) >= 2

\* the text before the "=" taken for the value
SplitValue_Name(part) == part[1]

SplitValue(part) == part[2]

\* the raw-object shape of the interface: crm/lead_created/dt=<day>/lead_id=<id>/<file>
HasRawShape(key) ==
    /\ Len(key) = 5
    /\ key[1] = <<<<"crm">>>>
    /\ key[2] = <<<<"lead_created">>>>
    /\ Len(key[3]) = 2 /\ key[3][1] = <<"dt">>
    /\ Len(key[4]) = 2 /\ key[4][1] = <<"lead_id">>
    /\ Len(key[5]) = 1

ForeignKeys ==
    { out_key(Today, <<"L1">>),
      RAW_PREFIX \o << <<Today>>, <<<<"lead_id">>, <<"L1">>>>,
                       <<<<"crm_event_", "L1", ".json">>>> >>,
      RAW_PREFIX \o << <<<<"dt">>, Today>>, <<<<"lead_id">>, <<"L1">>>> >>,
      RAW_PREFIX \o << <<<<"dt">>, Today>>, <<<<"lead_id">>, <<"L1">>>>,
                       <<<<"archive">>>>, <<<<"crm_event_", "L1", ".json">>>> >> }

EventKeys == { IngestKey(Today, l) : l \in Leads } \cup ForeignKeys

----------------------------------------------------------------------------
(* Webhook bodies and raw objects.  A dict-valued slot is a record tagged  *)
(* "dict", "None" (JSON null) or "absent" (no such entry).                 *)

Absent == [t |-> "absent"]

PyNone == [t |-> "None"]

\* event.data of a webhook body: every field present, no field present ({} and
\* the absent entry read alike), or JSON null
DataShapes ==
    { [t |-> "dict", display_name |-> <<"Jane Doe">>, status_label |-> <<"Potential">>,
       date_created |-> <<"2024-03-01", "T09:00:00Z">>],
      [t |-> "dict", display_name |-> Null, status_label |-> Null, date_created |-> Null],
      PyNone }

WebhookBodies ==
    { [lead_id |-> Null,
       event |-> [t |-> "dict", lead_id |-> l, object_id |-> Null,
                  date_created |-> <<"2024-03-01", "T09:00:00Z">>, data |-> d]]
        : l \in Leads, d \in DataShapes }
    \cup { [lead_id |-> <<"L2">>, event |-> Absent],
           [lead_id |-> Null, event |-> Absent] }

\* body.get("event", {})
EventOf(body) == IF body.event.t = "absent" THEN [t |-> "dict", lead_id |-> Null,
                     object_id |-> Null, date_created |-> <<>>, data |-> Absent]
                 ELSE body.event

\* a or b or c
Or3(a, b, c) == IF a # Null /\ a # <<>> THEN a ELSE IF b # Null /\ b # <<>> THEN b ELSE c

\* s[:10] of an ISO timestamp, whose first token is the ten characters of the day
Slice10(s) == IF s = <<>> THEN <<>> ELSE <<Head(s)>>

\* raw.get("event", {}).get("data", {})
DataOf(envelope) ==
    LET ev == EventOf(envelope)
    IN  IF ev.data.t = "absent"
          THEN [t |-> "dict", display_name |-> Null, status_label |-> Null,
                date_created |-> Null]
          ELSE ev.data

----------------------------------------------------------------------------
(* State *)

NoExc == Exc("None", 0)

NoKey == <<>>

NoLoc == [key |-> NoKey, day |-> <<>>, lead_id |-> <<>>, data |-> Absent,
          owner_payload |-> EmptyDict, lookup_status |-> "none", hook |-> "None"]

\* i: iterations of the retry loop completed; last: the local of that name;
\* errs: the errors of the attempts of the call, in order, until the call
\* returns or the handler has absorbed its exception
NoFetch == [i |-> 0, last |-> NoExc, errs |-> << >>]

\* a Python value handed to clean_email: None or a string of characters
PyStr(s) == [t |-> "str", s |-> s]

Unset == <<"unset">>

NoEmail == [arg |-> PyNone, first |-> Unset, second |-> Unset]

NoPeer == [pc |-> "idle", key |-> NoKey, day |-> << >>, lead_id |-> << >>,
           data |-> Absent, owner_payload |-> EmptyDict, lookup_status |-> "none",
           last |-> NoExc]

Config == SKIP_OWNER_LOOKUP \in BOOLEAN /\ SLACK_SECRET_NAME \in {"None", "slack/webhook"}

Init ==
    /\ Config
    /\ raw = << >>
    /\ curated = << >>
    /\ errors = << >>
    /\ now = 0
    /\ ingests = 0
    /\ deliveries = 0
    /\ event = << >>
    /\ pc = "idle"
    /\ ri = 0
    /\ ki = 0
    /\ loc = NoLoc
    /\ fetch = NoFetch
    /\ seen = << >>
    /\ trace = << >>
    /\ result = [status |-> "none", exc |-> NoExc]
    /\ cls = [err |-> NoExc, kind |-> "none"]
    /\ email = NoEmail
    /\ peer = NoPeer

\* what no step of lambda_handler changes
cfgvars == <<SKIP_OWNER_LOOKUP, SLACK_SECRET_NAME, cls, email, ingests, peer>>

stores == <<raw, curated, errors>>

\* an object that exists is updated in place and keeps the time of its first write
put_object_Patch(bucket, key, payload) ==
    IF key \in DOMAIN bucket /\ "enriched_at" \in DOMAIN payload
      THEN (key :> [payload EXCEPT !.enriched_at = bucket[key].enriched_at]) @@ bucket
      ELSE (key :> payload) @@ bucket

\* s3.put_object(Bucket, Key, Body): the object at the key is replaced whole
put_object(bucket, key, payload) == (key :> payload) @@ bucket

Call(op, target) == Append(trace, [op |-> op, target |-> target])

SetFate(fate) == [seen EXCEPT ![Len(seen)].fate = fate]

\* the exception is swallowed and the loop goes on with the keys
Raise_GoOn(e) ==
    /\ result' = [status |-> "running", exc |-> e]
    /\ pc' = "key"

\* an exception leaves lambda_handler: the delivery is not acknowledged
Raise(e) ==
    /\ result' = [status |-> "raised", exc |-> e]
    /\ pc' = "idle"

\* lambda_handler returns: the delivery is acknowledged
Return ==
    /\ result' = [status |-> "ack", exc |-> NoExc]
    /\ pc' = "idle"

----------------------------------------------------------------------------
(* Ingestion handler (src/ingest/webhook_handler.py) *)

\* The handler runs beside the engine; only its order relative to the engine's
\* reads of the raw bucket can be observed, so it is scheduled between
\* deliveries and right before such a read.  Its clock (_iso_now) is the
\* number of webhook calls so far.
IngestUpTo(calls) ==
    /\ pc \in {"idle", "read"}
    /\ ingests < calls
    /\ ingests' = ingests + 1
    /\ \E body \in WebhookBodies :
         LET lead_id == Or3(EventOf(body).lead_id, body.lead_id, EventOf(body).object_id)
             envelope == [lead_id |-> body.lead_id, event |-> body.event,
                          ingested_at |-> ingests, assignee |-> Null,
                          enrichment_status |-> <<"pending">>]
             d == Slice10(EventOf(envelope).date_created)
             day == IF d = <<>> THEN Today ELSE d
         IN  IF lead_id = Null
               THEN UNCHANGED raw      \* 400 missing lead_id
               ELSE raw' = put_object(raw, IngestKey(day, lead_id), envelope)
    /\ UNCHANGED <<SKIP_OWNER_LOOKUP, SLACK_SECRET_NAME, cls, email, peer, curated, errors,
                   now, deliveries, event, pc, ri, ki, loc, fetch, seen, trace, result>>

Ingest == IngestUpTo(MaxIngests)

\* the webhook is called once more, as when the CRM repeats a call
Reingest == IngestUpTo(MaxIngests + 1)

----------------------------------------------------------------------------
(* Enrichment engine (src/transform/assignment_handler.py) *)

\* the message records of one delivery: how many object keys the S3 event of
\* each names.  How a body is wrapped, and the keys themselves, are drawn when
\* the handler reaches them.
Events == UNION { [1..n -> 0..MaxKeys] : n \in 0..MaxRecords }

\* record["body"]: a direct S3 event, one wrapped in {"Message": ...}, or not JSON
Wraps == {"direct", "sns", "malformed"}

\* the queue hands a delivery to lambda_handler
ReceiveOf(events, calls) ==
    /\ pc = "idle"
    /\ deliveries < calls
    /\ deliveries' = deliveries + 1
    /\ \E ev \in events : event' = ev
    /\ pc' = "record"
    /\ ri' = 1
    /\ ki' = 0
    /\ loc' = NoLoc
    /\ fetch' = NoFetch
    /\ seen' = << >>
    /\ trace' = << >>
    /\ result' = [status |-> "running", exc |-> NoExc]
    /\ now' = now + 1
    /\ UNCHANGED <<cfgvars, stores>>

Receive == ReceiveOf(Events, MaxDeliveries)

\* a single delivery of one message record that names one object key
ReceiveOne == ReceiveOf({<<1>>}, 1)

\* lines 118-120: take the next message record and decode its body
NextRecord ==
    /\ pc = "record"
    /\ IF ri > Len(event)
         THEN Return /\ UNCHANGED ki
         ELSE \E wrap \in Wraps :
                IF wrap = "malformed"
                  THEN Raise(Exc("ValueError", 0)) /\ UNCHANGED ki
                  ELSE pc' = "key" /\ ki' = 1 /\ UNCHANGED result
    /\ UNCHANGED <<cfgvars, stores, now, deliveries, event, ri, loc, fetch, seen, trace>>

\* lines 122-135 and 201-202: take the next object key of the record, pass over it
\* or parse it; when the record has no further key, return
NextKey ==
    /\ pc = "key"
    /\ IF ki > event[ri]
         THEN Return /\ UNCHANGED <<loc, seen, ki, trace>>
         ELSE \E key \in EventKeys :
                LET entry == [r |-> ri, k |-> ki, key |-> key, fate |-> "examining"]
                IN  IF IsSkipped(key)
                      THEN /\ seen' = Append(seen, [entry EXCEPT !.fate = "skipped"])
                           /\ ki' = ki + 1
                           /\ trace' = << >>
                           /\ UNCHANGED <<loc, pc, result>>
                    ELSE IF ~ HasValue(key[3]) \/ ~ HasValue(key[4])
                      THEN /\ seen' = Append(seen, [entry EXCEPT !.fate = "raised"])
                           /\ Raise(Exc("IndexError", 0))
                           /\ trace' = << >>
                           /\ UNCHANGED <<loc, ki>>
                    ELSE /\ seen' = Append(seen, entry)
                         /\ loc' = [NoLoc EXCEPT !.key = key,
                                                 !.day = SplitValue(key[3]),
                                                 !.lead_id = SplitValue(key[4])]
                         /\ pc' = "read"
                         /\ trace' = << >>
                         /\ UNCHANGED <<ki, result>>
    /\ UNCHANGED <<cfgvars, stores, now, deliveries, event, ri, fetch>>

\* lines 138-144: read the raw object, take its data, decide whether to look up
ReadRaw ==
    /\ pc = "read"
    /\ trace' = Call("get_object", loc.key)
    /\ \E ok \in BOOLEAN :
         IF ~ ok \/ loc.key \notin DOMAIN raw
           THEN Raise(Exc("ClientError", 0)) /\ UNCHANGED <<loc, fetch>>
         ELSE IF EventOf(raw[loc.key]).t = "None"
           THEN Raise(Exc("AttributeError", 0)) /\ UNCHANGED <<loc, fetch>>
         ELSE /\ loc' = [loc EXCEPT !.data = DataOf(raw[loc.key]),
                                    !.owner_payload = EmptyDict,
                                    !.lookup_status =
                                        IF SKIP_OWNER_LOOKUP THEN "skipped" ELSE "ok"]
              /\ fetch' = NoFetch
              /\ pc' = IF SKIP_OWNER_LOOKUP THEN "enrich" ELSE "urlopen"
              /\ UNCHANGED result
    /\ UNCHANGED <<cfgvars, stores, now, deliveries, event, ri, ki, seen>>

\* what one call of urlopen(owner_url) followed by json.loads can do
LookupResponses ==
    { [ok |-> TRUE, payload |-> p, err |-> NoExc] : p \in OwnerPayloads }
    \cup { [ok |-> FALSE, payload |-> EmptyDict, err |-> e] : e \in LookupErrors }

\* a loop over range(RETRY_TRANSIENT)
in_range_OffByOne(i) == i < RETRY_TRANSIENT

\* line 55, for _ in range(RETRY_TRANSIENT + 1): is there an iteration after i?
in_range(i) == i < RETRY_TRANSIENT + 1

\* the back-off taken before the error is looked at
after_failure_AlwaysSleep(kind) == "sleep"

\* only an error known to be transient is retried
after_failure_UnknownAborts(kind) == IF kind = "transient" THEN "sleep" ELSE "except"

\* lines 61-64: a permanent error is raised at once, any other is slept on
after_failure(kind) == IF kind = "permanent" THEN "except" ELSE "sleep"

\* every lookup error is raised again
on_lookup_error_AlwaysRaise(kind) == "raise"

\* every lookup error is absorbed and recorded
on_lookup_error_AlwaysAbsorb(kind) == "absorb"

\* lines 150-161: a permanent error is absorbed, any other is raised again
on_lookup_error(kind) == IF kind = "permanent" THEN "absorb" ELSE "raise"

\* fetch_owner_json, lines 55-62: one attempt of the loop
Urlopen ==
    /\ pc = "urlopen"
    /\ in_range(fetch.i)
    /\ trace' = Call("urlopen", NoKey)
    /\ \E resp \in LookupResponses :
         IF resp.ok
           THEN /\ loc' = [loc EXCEPT !.owner_payload = resp.payload]
                /\ pc' = "enrich"
                /\ fetch' = NoFetch
         ELSE /\ fetch' = [fetch EXCEPT !.last = resp.err,
                                         !.errs = Append(fetch.errs, resp.err)]
              /\ pc' = after_failure(classify_lookup_error(resp.err))
              /\ UNCHANGED loc
    /\ UNCHANGED <<cfgvars, stores, now, deliveries, event, ri, ki, seen, result>>

\* fetch_owner_json, lines 64-66: back off, then try again or raise the last error
Sleep ==
    /\ pc = "sleep"
    /\ trace' = Call("sleep", NoKey)
    /\ fetch' = [fetch EXCEPT !.i = fetch.i + 1]
    /\ pc' = IF in_range(fetch.i + 1) THEN "urlopen" ELSE "except"
    /\ UNCHANGED <<cfgvars, stores, now, deliveries, event, ri, ki, loc, seen, result>>

\* _write_error_artifact, lines 68-77
ErrorArtifact(lead_id, reason, at, detail) ==
    [lead_id |-> lead_id, reason |-> reason, at |-> at, detail |-> detail]

\* a failure of the error write is swallowed and the curated write goes ahead
HandleLookupError_SwallowsWriteFailure ==
    /\ pc = "except"
    /\ LET e == fetch.last
           kind == classify_lookup_error(e)
       IN  IF on_lookup_error(kind) = "absorb"
             THEN /\ trace' = Call("put_object", err_key(loc.day, loc.lead_id))
                  /\ \E ok \in BOOLEAN :
                       errors' = IF ok
                                   THEN put_object(errors, err_key(loc.day, loc.lead_id),
                                            ErrorArtifact(loc.lead_id,
                                                <<"permanent:", e.cls>>, now, e))
                                 ELSE errors
                  /\ loc' = [loc EXCEPT !.lookup_status = "permanent_failed",
                                        !.owner_payload = EmptyDict]
                  /\ fetch' = [fetch EXCEPT !.errs = << >>]
                  /\ pc' = "enrich"
                  /\ UNCHANGED result
             ELSE /\ Raise(e)
                  /\ UNCHANGED <<errors, loc, trace, fetch>>
    /\ UNCHANGED <<cfgvars, raw, curated, now, deliveries, event, ri, ki, seen>>

\* lambda_handler, lines 148-161: the lookup raised
HandleLookupError ==
    /\ pc = "except"
    /\ LET e == fetch.last
           kind == classify_lookup_error(e)
       IN  IF on_lookup_error(kind) = "absorb"
             THEN /\ trace' = Call("put_object", err_key(loc.day, loc.lead_id))
                  /\ \E ok \in BOOLEAN :
                       IF ok
                         THEN /\ errors' = put_object(errors, err_key(loc.day, loc.lead_id),
                                              ErrorArtifact(loc.lead_id, <<"permanent:", e.cls>>,
                                                            now, e))
                              /\ loc' = [loc EXCEPT !.lookup_status = "permanent_failed",
                                                    !.owner_payload = EmptyDict]
                              /\ fetch' = [fetch EXCEPT !.errs = << >>]
                              /\ pc' = "enrich"
                              /\ UNCHANGED result
                         ELSE /\ Raise(Exc("ClientError", 0))
                              /\ UNCHANGED <<errors, loc, fetch>>
             ELSE /\ Raise(e)
                  /\ UNCHANGED <<errors, loc, trace, fetch>>
    /\ UNCHANGED <<cfgvars, raw, curated, now, deliveries, event, ri, ki, seen>>

\* the assignee taken from the owner's e-mail address
EnrichedLead_AssigneeFromEmail(lead_id, data, owner_payload, at, lookup_status) ==
    [lead_id |-> lead_id,
     display_name |-> data.display_name,
     status_label |-> data.status_label,
     date_created |-> data.date_created,
     lead_email |-> owner_payload.lead_email,
     lead_owner |-> owner_payload.lead_owner,
     funnel |-> owner_payload.funnel,
     assignee |-> owner_payload.lead_email,
     enriched_at |-> at,
     owner_lookup_status |-> lookup_status]

\* lines 163-174
EnrichedLead(lead_id, data, owner_payload, at, lookup_status) ==
    [lead_id |-> lead_id,
     display_name |-> data.display_name,
     status_label |-> data.status_label,
     date_created |-> data.date_created,
     lead_email |-> owner_payload.lead_email,
     lead_owner |-> owner_payload.lead_owner,
     funnel |-> owner_payload.funnel,
     assignee |-> owner_payload.lead_owner,
     enriched_at |-> at,
     owner_lookup_status |-> lookup_status]

\* the error artifact of the lead is removed when its lookup succeeded
Enrich_ClearsError ==
    /\ pc = "enrich"
    /\ IF loc.data.t # "dict"
         THEN /\ Raise(Exc("AttributeError", 0))
              /\ UNCHANGED <<curated, errors, trace, seen>>
         ELSE /\ trace' = Call("put_object", out_key(loc.day, loc.lead_id))
              /\ \E ok \in BOOLEAN :
                   IF ok
                     THEN /\ curated' = put_object(curated, out_key(loc.day, loc.lead_id),
                                           EnrichedLead(loc.lead_id, loc.data,
                                               loc.owner_payload, now, loc.lookup_status))
                          /\ errors' = IF loc.lookup_status = "ok"
                                         THEN [k \in DOMAIN errors
                                                     \ {err_key(loc.day, loc.lead_id)}
                                                 |-> errors[k]]
                                       ELSE errors
                          /\ seen' = SetFate(IF loc.lookup_status = "permanent_failed"
                                               THEN "permanent_recorded" ELSE "enriched")
                          /\ pc' = "slack"
                          /\ UNCHANGED result
                     ELSE /\ Raise(Exc("ClientError", 0))
                          /\ UNCHANGED <<curated, errors, seen>>
    /\ UNCHANGED <<cfgvars, raw, now, deliveries, event, ri, ki, loc, fetch>>

\* lines 163-177: build the curated artifact and write it
Enrich ==
    /\ pc = "enrich"
    /\ IF loc.data.t # "dict"
         THEN /\ Raise(Exc("AttributeError", 0))
              /\ UNCHANGED <<curated, trace, seen>>
         ELSE /\ trace' = Call("put_object", out_key(loc.day, loc.lead_id))
              /\ \E ok \in BOOLEAN :
                   IF ok
                     THEN /\ curated' = put_object(curated, out_key(loc.day, loc.lead_id),
                                           EnrichedLead(loc.lead_id, loc.data,
                                               loc.owner_payload, now, loc.lookup_status))
                          /\ seen' = SetFate(IF loc.lookup_status = "permanent_failed"
                                               THEN "permanent_recorded" ELSE "enriched")
                          /\ pc' = "slack"
                          /\ UNCHANGED result
                     ELSE /\ Raise(Exc("ClientError", 0))
                          /\ UNCHANGED <<curated, seen>>
    /\ UNCHANGED <<cfgvars, raw, errors, now, deliveries, event, ri, ki, loc, fetch>>

\* what _slack_url() can return when a secret name is configured: None (the
\* secret cannot be read, is not JSON, or holds no url), a webhook URL, or a
\* value that urllib.request.Request does not accept as a URL
Hooks == {"None", "https://hooks.example/T0", "not-a-url"}

\* lines 84-95 and 180-181
SlackUrl ==
    /\ pc = "slack"
    /\ \E hook \in Hooks :
         /\ SLACK_SECRET_NAME = "None" => hook = "None"
         /\ trace' = IF SLACK_SECRET_NAME = "None" THEN trace
                     ELSE Call("get_secret_value", NoKey)
         /\ loc' = [loc EXCEPT !.hook = hook]
         /\ IF hook = "None"
              THEN pc' = "key" /\ ki' = ki + 1
              ELSE pc' = "post" /\ UNCHANGED ki
    /\ UNCHANGED <<cfgvars, stores, now, deliveries, event, ri, fetch, seen, result>>

\* what the webhook endpoint can do: 2xx, HTTPError, any other exception
PostOutcomes == {200, 500, 0}

\* the post is made again when the endpoint does not answer 2xx
PostSlack_Retry ==
    /\ pc = "post"
    /\ IF loc.hook = "not-a-url"
         THEN /\ Raise(Exc("ValueError", 0))
              /\ trace' = Call("post", NoKey)
              /\ UNCHANGED ki
         ELSE /\ \E status \in PostOutcomes :
                   trace' = IF status = 200 THEN Call("post", NoKey)
                            ELSE Append(Call("post", NoKey), [op |-> "post", target |-> NoKey])
              /\ pc' = "key"
              /\ ki' = ki + 1
              /\ UNCHANGED result
    /\ UNCHANGED <<cfgvars, stores, now, deliveries, event, ri, loc, fetch, seen>>

\* _post_slack, lines 97-113, and lines 198-199; "post" records the call
PostSlack ==
    /\ pc = "post"
    /\ IF loc.hook = "not-a-url"
         THEN /\ Raise(Exc("ValueError", 0))      \* Request(webhook_url, ...) raises
              /\ trace' = Call("post", NoKey)
              /\ UNCHANGED ki
         ELSE /\ \E status \in PostOutcomes :
                   trace' = Call("post", NoKey)
              /\ pc' = "key"
              /\ ki' = ki + 1
              /\ UNCHANGED result
    /\ UNCHANGED <<cfgvars, stores, now, deliveries, event, ri, loc, fetch, seen>>

----------------------------------------------------------------------------
(* classify_lookup_error over every error it can be handed *)

HttpCodes == 300..600

AllErrors ==
    { Exc("HTTPError", n) : n \in HttpCodes }
    \cup { Exc(c, 0) : c \in {"URLError", "TimeoutError", "ConnectionResetError",
                              "ValueError", "KeyError"} }

Classify ==
    /\ cls.kind = "none"
    /\ cls' = [cls EXCEPT !.kind = classify_lookup_error(cls.err)]
    /\ UNCHANGED <<SKIP_OWNER_LOOKUP, SLACK_SECRET_NAME, raw, curated, errors, now,
                   ingests, deliveries, event, pc, ri, ki, loc, fetch, seen, trace,
                   result, email, peer>>

InitClassify ==
    /\ SKIP_OWNER_LOOKUP = FALSE
    /\ SLACK_SECRET_NAME = "None"
    /\ raw = << >>
    /\ curated = << >>
    /\ errors = << >>
    /\ now = 0
    /\ ingests = 0
    /\ deliveries = 0
    /\ event = << >>
    /\ pc = "idle"
    /\ ri = 0
    /\ ki = 0
    /\ loc = NoLoc
    /\ fetch = NoFetch
    /\ seen = << >>
    /\ trace = << >>
    /\ result = [status |-> "none", exc |-> NoExc]
    /\ cls \in { [err |-> e, kind |-> "none"] : e \in AllErrors }
    /\ email = NoEmail
    /\ peer = NoPeer

SpecClassify == InitClassify /\ [][Classify]_vars

----------------------------------------------------------------------------
(* clean_email (src/lambdas/refinement/lambda_function.py).  A string is   *)
(* the sequence of its characters: a blank, an upper-case and a lower-case *)
(* letter, "@" and ".".                                                    *)

MaxEmailLen == 4

Chars == {" ", "A", "a", "@", "."}

Strings == UNION { [1..n -> Chars] : n \in 0..MaxEmailLen }

RECURSIVE lstrip(_)
lstrip(s) == IF s # << >> /\ Head(s) = " " THEN lstrip(Tail(s)) ELSE s

RECURSIVE rstrip(_)
rstrip(s) ==
    IF s # << >> /\ s[Len(s)] = " " THEN rstrip(SubSeq(s, 1, Len(s) - 1)) ELSE s

\* str.strip()
strip(s) == rstrip(lstrip(s))

\* str.lower()
lower(s) == [i \in 1..Len(s) |-> IF s[i] = "A" THEN "a" ELSE s[i]]

\* c in s
contains(c, s) == \E i \in 1..Len(s) : s[i] = c

RECURSIVE split(_, _)
\* s.split(c): the pieces of s between the occurrences of c
split(s, c) ==
    IF ~ contains(c, s) THEN <<s>>
    ELSE LET i == CHOOSE n \in 1..Len(s) : s[n] = c /\ \A m \in 1..(n - 1) : s[m] # c
         IN  <<SubSeq(s, 1, i - 1)>> \o split(SubSeq(s, i + 1, Len(s)), c)

\* `not email`: None and the empty string are falsy
falsy(v) == v.t = "None" \/ v.s = << >>

\* the domain taken after the last "@"
clean_email_LastPiece(v) ==
    IF falsy(v) THEN << >>
    ELSE LET e == lower(strip(v.s))
         IN  IF contains("@", e) /\ contains(".", split(e, "@")[Len(split(e, "@"))])
               THEN e ELSE << >>

\* lines 128-136; split(...)[1] of Python is the second piece
clean_email(v) ==
    IF falsy(v) THEN << >>
    ELSE LET e == lower(strip(v.s))
         IN  IF contains("@", e) /\ contains(".", split(e, "@")[2])
               THEN e ELSE << >>

CleanEmail ==
    /\ email.first = Unset
    /\ email' = [email EXCEPT !.first = clean_email(email.arg)]
    /\ UNCHANGED <<SKIP_OWNER_LOOKUP, SLACK_SECRET_NAME, cls, ingests, stores, now,
                   deliveries, event, pc, ri, ki, loc, fetch, seen, trace, result, peer>>

\* the value returned is handed to clean_email again
CleanAgain ==
    /\ email.first # Unset
    /\ email.second = Unset
    /\ email' = [email EXCEPT !.second = clean_email(PyStr(email.first))]
    /\ UNCHANGED <<SKIP_OWNER_LOOKUP, SLACK_SECRET_NAME, cls, ingests, stores, now,
                   deliveries, event, pc, ri, ki, loc, fetch, seen, trace, result, peer>>

InitEmail ==
    /\ SKIP_OWNER_LOOKUP = FALSE /\ SLACK_SECRET_NAME = "None"
    /\ raw = << >> /\ curated = << >> /\ errors = << >>
    /\ now = 0 /\ ingests = 0 /\ deliveries = 0
    /\ event = << >> /\ pc = "idle" /\ ri = 0 /\ ki = 0
    /\ loc = NoLoc /\ fetch = NoFetch /\ seen = << >> /\ trace = << >>
    /\ result = [status |-> "none", exc |-> NoExc]
    /\ cls = [err |-> NoExc, kind |-> "none"]
    /\ peer = NoPeer
    /\ email \in { [arg |-> v, first |-> Unset, second |-> Unset] :
                      v \in {PyNone} \cup { PyStr(s) : s \in Strings } }

SpecEmail == InitEmail /\ [][CleanEmail \/ CleanAgain]_vars

----------------------------------------------------------------------------
Next ==
    \/ Ingest
    \/ Receive
    \/ NextRecord
    \/ NextKey
    \/ ReadRaw
    \/ Urlopen
    \/ Sleep
    \/ HandleLookupError
    \/ Enrich
    \/ SlackUrl
    \/ PostSlack

Spec == Init /\ [][Next]_vars

\* the steps of lambda_handler after it has been called
Handle ==
    \/ NextRecord
    \/ NextKey
    \/ ReadRaw
    \/ Urlopen
    \/ Sleep
    \/ HandleLookupError
    \/ Enrich
    \/ SlackUrl
    \/ PostSlack

\* a repeated webhook call beside one delivery
NextRaw ==
    \/ Reingest
    \/ ReceiveOne
    \/ Handle

SpecRaw == Init /\ [][NextRaw]_vars

\* The queue of one message, a record that names up to MaxKeys object keys.
\* The message is delivered, and delivered again after a delivery that was not
\* acknowledged, until the ceiling is reached.  A redelivery carries the same
\* message; the keys it names are read from the body when the handler reaches
\* them.
Deliver == ReceiveOf({ <<n>> : n \in 1..MaxKeys }, 1)

Redeliver ==
    /\ result.status = "raised"
    /\ ReceiveOf({event}, MaxReceives)

NextQueue ==
    \/ Ingest
    \/ Deliver
    \/ Redeliver
    \/ Handle

\* The Lambda runtime runs a started call of the handler to its end (every
\* outbound call has a timeout), and the queue hands over a visible message.
SpecQueue ==
    /\ Init
    /\ [][NextQueue]_vars
    /\ WF_vars(Handle)
    /\ WF_vars(Deliver \/ Redeliver)

----------------------------------------------------------------------------
(* A second call of lambda_handler that runs beside the first and handles  *)
(* a raw object of the store.  Its steps are the store operations of one   *)
(* key; fetch_owner_json and the notification touch nothing the two calls  *)
(* share, so the lookup is one step and the notification is left out.      *)

\* what no step of the second call changes
rest == <<SKIP_OWNER_LOOKUP, SLACK_SECRET_NAME, cls, email, ingests, raw, now,
          deliveries, event, pc, ri, ki, loc, fetch, seen, trace, result>>

\* lines 122-135: the call is handed the key of a raw object
PeerKey ==
    /\ peer.pc = "idle"
    /\ \E key \in DOMAIN raw :
         peer' = [NoPeer EXCEPT !.pc = "read", !.key = key,
                                !.day = SplitValue(key[3]),
                                !.lead_id = SplitValue(key[4])]
    /\ UNCHANGED <<rest, curated, errors>>

\* lines 138-144
PeerReadRaw ==
    /\ peer.pc = "read"
    /\ \E ok \in BOOLEAN :
         IF ~ ok \/ EventOf(raw[peer.key]).t = "None"
           THEN peer' = [peer EXCEPT !.pc = "raised"]
           ELSE peer' = [peer EXCEPT
                           !.data = DataOf(raw[peer.key]),
                           !.lookup_status = IF SKIP_OWNER_LOOKUP THEN "skipped" ELSE "ok",
                           !.pc = IF SKIP_OWNER_LOOKUP THEN "enrich" ELSE "fetch"]
    /\ UNCHANGED <<rest, curated, errors>>

\* line 146: the call of fetch_owner_json returns a record or raises its last error
PeerFetch ==
    /\ peer.pc = "fetch"
    /\ \E resp \in LookupResponses :
         IF resp.ok
           THEN peer' = [peer EXCEPT !.owner_payload = resp.payload, !.pc = "enrich"]
           ELSE peer' = [peer EXCEPT !.last = resp.err, !.pc = "except"]
    /\ UNCHANGED <<rest, curated, errors>>

\* lines 148-161
PeerHandleLookupError ==
    /\ peer.pc = "except"
    /\ IF on_lookup_error(classify_lookup_error(peer.last)) = "absorb"
         THEN \E ok \in BOOLEAN :
                IF ok
                  THEN /\ errors' = put_object(errors, err_key(peer.day, peer.lead_id),
                                        ErrorArtifact(peer.lead_id,
                                            <<"permanent:", peer.last.cls>>, now, peer.last))
                       /\ peer' = [peer EXCEPT !.lookup_status = "permanent_failed",
                                               !.owner_payload = EmptyDict,
                                               !.pc = "enrich"]
                  ELSE /\ peer' = [peer EXCEPT !.pc = "raised"]
                       /\ UNCHANGED errors
         ELSE /\ peer' = [peer EXCEPT !.pc = "raised"]
              /\ UNCHANGED errors
    /\ UNCHANGED <<rest, curated>>

\* lines 163-177
PeerEnrich ==
    /\ peer.pc = "enrich"
    /\ IF peer.data.t # "dict"
         THEN /\ peer' = [peer EXCEPT !.pc = "raised"]
              /\ UNCHANGED curated
         ELSE \E ok \in BOOLEAN :
                IF ok
                  THEN /\ curated' = put_object(curated, out_key(peer.day, peer.lead_id),
                                         EnrichedLead(peer.lead_id, peer.data,
                                             peer.owner_payload, now, peer.lookup_status))
                       /\ peer' = [peer EXCEPT !.pc = "written"]
                  ELSE /\ peer' = [peer EXCEPT !.pc = "raised"]
                       /\ UNCHANGED curated
    /\ UNCHANGED <<rest, errors>>

Peer ==
    \/ PeerKey
    \/ PeerReadRaw
    \/ PeerFetch
    \/ PeerHandleLookupError
    \/ PeerEnrich

NextConc ==
    \/ Ingest
    \/ ReceiveOne
    \/ Handle
    \/ Peer

SpecConc == Init /\ [][NextConc]_vars

----------------------------------------------------------------------------
(* Properties *)

Count(op) == Cardinality({ i \in 1..Len(trace) : trace[i].op = op })

Last(q) == q[Len(q)]

Acked == pc = "idle" /\ result.status = "ack"

Raised == pc = "idle" /\ result.status = "raised"

\* the positions (record, key) of the object keys the delivery refers to
Referenced == { rk \in (1..Len(event)) \X (1..MaxKeys) : rk[2] <= event[rk[1]] }

\* C1: a delivery is acknowledged only after every object key of every message
\* record of it has been skipped, enriched, or recorded as a permanent failure.
C1_AckAfterAllKeys ==
    Acked =>
      \A rk \in Referenced :
        \E i \in 1..Len(seen) :
          /\ seen[i].r = rk[1] /\ seen[i].k = rk[2]
          /\ seen[i].fate \in {"skipped", "enriched", "permanent_recorded"}

C3_ExhaustionPropagates ==
    fetch.i = RETRY_TRANSIENT + 1 =>
      /\ pc \in {"except", "idle"}
      /\ classify_lookup_error(fetch.last) \in {"transient", "unknown"}
      /\ Count("put_object") = 0
      /\ pc = "idle" => result = [status |-> "raised", exc |-> fetch.last]

C3_Witness ==
    /\ Raised
    /\ fetch.i = RETRY_TRANSIENT + 1
    /\ classify_lookup_error(result.exc) = "transient"

OneKeyPerLead(store) ==
    \A k1, k2 \in DOMAIN store :
        (store[k1].lead_id = store[k2].lead_id /\ k1[3] = k2[3]) => k1 = k2

\* the artifact was built from the inputs the handler holds now
SameInputs(a) ==
    /\ a.lead_id = loc.lead_id
    /\ a.display_name = loc.data.display_name
    /\ a.status_label = loc.data.status_label
    /\ a.date_created = loc.data.date_created
    /\ a.lead_email = loc.owner_payload.lead_email
    /\ a.lead_owner = loc.owner_payload.lead_owner
    /\ a.funnel = loc.owner_payload.funnel
    /\ a.owner_lookup_status = loc.lookup_status

RewriteStep ==
    curated' # curated =>
      \E K \in DOMAIN curated' :
        /\ DOMAIN curated' = DOMAIN curated \cup {K}
        /\ \A k \in DOMAIN curated \ {K} : curated'[k] = curated[k]
        /\ (K \in DOMAIN curated /\ SameInputs(curated[K])) =>
              curated'[K] = [curated[K] EXCEPT !.enriched_at = curated'[K].enriched_at]

\* C4: handling a raw object again with the same inputs rewrites the curated
\* artifact at the same key, equal in every field but enriched_at; the curated
\* store and the error store never hold two keys for one (day, lead_id).
C4_Idempotent ==
    /\ [](OneKeyPerLead(curated) /\ OneKeyPerLead(errors))
    /\ [][RewriteStep]_vars

C4_Witness ==
    /\ Acked
    /\ Len(seen) = 2
    /\ seen[1].key = seen[2].key
    /\ seen[1].fate = "enriched" /\ seen[2].fate = "enriched"
    /\ Cardinality(DOMAIN curated) = 1

\* C5: no failure of the notification step makes lambda_handler raise: the
\* handler never raises between the write of a key's curated artifact and the
\* next key.
C5_NotificationAbsorbed ==
    (Raised /\ seen # << >>) =>
        Last(seen).fate \notin {"enriched", "permanent_recorded"}

\* C6: every key that does not have the raw-object shape is skipped: nothing is
\* read, looked up or written for it and nothing is raised because of it.
C6_MalformedKeysSkipped ==
    \A i \in 1..Len(seen) :
        ~ HasRawShape(seen[i].key) => seen[i].fate = "skipped"

\* connection-level failures: timeouts, DNS failure, connection refused or reset
ConnectionLevel(err) == err.cls \in {"URLError", "TimeoutError", "ConnectionResetError"}

\* C7: classify_lookup_error returns permanent for every 4xx HTTP error,
\* transient for every 5xx HTTP error and every connection-level failure
\* (timeouts included), and unknown for every other error.
C7_Classification ==
    cls.kind # "none" =>
      cls.kind =
        IF cls.err.cls = "HTTPError" /\ cls.err.code \in 400..499 THEN "permanent"
        ELSE IF cls.err.cls = "HTTPError" /\ cls.err.code \in 500..599 THEN "transient"
        ELSE IF ConnectionLevel(cls.err) THEN "transient"
        ELSE "unknown"

\* C8: one call of fetch_owner_json never makes more than RETRY_TRANSIENT + 1
\* attempts, and when every attempt failed with a transient error it has made
\* exactly RETRY_TRANSIENT + 1 of them and raises the error of the last.
C8_RetryBudget ==
    /\ Count("urlopen") <= RETRY_TRANSIENT + 1
    /\ (pc = "except" /\ \A j \in 1..Len(fetch.errs) :
                             classify_lookup_error(fetch.errs[j]) = "transient") =>
          /\ Count("urlopen") = RETRY_TRANSIENT + 1
          /\ Len(fetch.errs) = RETRY_TRANSIENT + 1
          /\ fetch.last = Last(fetch.errs)

C8_Witness ==
    /\ pc = "except"
    /\ Len(fetch.errs) = RETRY_TRANSIENT + 1
    /\ \A j \in 1..Len(fetch.errs) : classify_lookup_error(fetch.errs[j]) = "transient"
    /\ fetch.errs[1] # Last(fetch.errs)

\* C9: in fetch_owner_json the first attempt that fails permanently is the last
\* attempt: the error is raised with no further lookup call and no sleep after
\* it, whatever number of other failures preceded it.
C9_PermanentAbortsAtOnce ==
    \A j \in 1..Len(fetch.errs) :
        classify_lookup_error(fetch.errs[j]) = "permanent" =>
          /\ j = Len(fetch.errs)
          /\ pc \in {"except", "idle"}
          /\ Count("urlopen") = j
          /\ Count("sleep") = j - 1

C9_Witness ==
    /\ pc = "except"
    /\ Len(fetch.errs) = RETRY_TRANSIENT + 1
    /\ classify_lookup_error(Last(fetch.errs)) = "permanent"
    /\ Count("sleep") = RETRY_TRANSIENT

\* C10: an unknown error is handled like a transient one: fetch_owner_json
\* raises it only when no attempt remains, and lambda_handler then raises it
\* again without writing an artifact for the key.
C10_UnknownAsTransient ==
    /\ (pc = "except" /\ classify_lookup_error(fetch.last) = "unknown") =>
          /\ fetch.i = RETRY_TRANSIENT + 1
          /\ Count("urlopen") = RETRY_TRANSIENT + 1
    /\ (pc = "idle" /\ fetch.last # NoExc
           /\ classify_lookup_error(fetch.last) = "unknown") =>
          /\ result = [status |-> "raised", exc |-> fetch.last]
          /\ Count("put_object") = 0

C10_Witness ==
    /\ Raised
    /\ classify_lookup_error(result.exc) = "unknown"
    /\ Len(fetch.errs) = RETRY_TRANSIENT + 1
    /\ classify_lookup_error(fetch.errs[1]) = "unknown"

\* C11: the merge is total: whatever the shape of the raw object that was read
\* (event.data a full dict, empty, absent or null) and whatever the lookup
\* returned, the key ends with a curated artifact and the delivery never ends
\* with an exception raised by the shape of the data.
C11_MergeTotal ==
    /\ Raised => result.exc.cls # "AttributeError"
    /\ (pc = "slack" /\ loc.key \in DOMAIN raw) =>
          /\ out_key(loc.day, loc.lead_id) \in DOMAIN curated
          /\ DataOf(raw[loc.key]).t = "None" =>
                curated[out_key(loc.day, loc.lead_id)].lead_name = Null

OwnerFieldsNull(a) ==
    /\ a.lead_email = Null /\ a.lead_owner = Null
    /\ a.funnel = Null /\ a.assignee = Null

\* C12: every curated artifact has owner_lookup_status ok, skipped or
\* permanent_failed, null owner fields unless the status is ok, and assignee equal
\* to lead_owner; the artifact just written has status skipped exactly when
\* SKIP_OWNER_LOOKUP is set (and then no lookup call was made), ok exactly when
\* the lookup returned a record, permanent_failed exactly when it failed
\* permanently.
C12_StatusRecordsPath ==
    /\ \A k \in DOMAIN curated :
          /\ curated[k].owner_lookup_status \in {"ok", "skipped", "permanent_failed"}
          /\ curated[k].owner_lookup_status # "ok" => OwnerFieldsNull(curated[k])
          /\ curated[k].assignee = curated[k].lead_owner
    /\ SKIP_OWNER_LOOKUP => Count("urlopen") = 0
    /\ pc = "slack" =>
          LET status == curated[out_key(loc.day, loc.lead_id)].owner_lookup_status
          IN  /\ status = "skipped" <=> SKIP_OWNER_LOOKUP
              /\ status = "ok" <=> (Count("urlopen") > 0 /\ fetch.last = NoExc)
              /\ status = "permanent_failed" <=>
                    (Count("urlopen") > 0 /\ fetch.last # NoExc
                       /\ classify_lookup_error(fetch.last) = "permanent")

C12_Witness ==
    /\ pc = "slack"
    /\ Count("urlopen") > 1
    /\ curated[out_key(loc.day, loc.lead_id)].owner_lookup_status = "ok"
    /\ curated[out_key(loc.day, loc.lead_id)].assignee = <<"alice">>
    /\ deliveries = 2

RECURSIVE Join(_, _)
\* sep.join(pieces), for pieces that are sequences of tokens
Join(pieces, sep) ==
    IF pieces = << >> THEN << >>
    ELSE IF Len(pieces) = 1 THEN pieces[1]
    ELSE pieces[1] \o <<sep>> \o Join(Tail(pieces), sep)

\* the text of an object key
Render(key) == Join([i \in 1..Len(key) |-> Join(key[i], "=")], "/")

\* the key formats of the interface: crm/<area>/dt=<day>/lead_id=<id>/<file>
Documented(area, day, lead_id, file) ==
    <<"crm", "/", area, "/", "dt", "=">> \o day \o <<"/", "lead_id", "=">> \o lead_id
        \o <<"/">> \o file

\* the lead id and the day under which the ingestion handler stored an envelope
IngestedLead(envelope) ==
    Or3(EventOf(envelope).lead_id, envelope.lead_id, EventOf(envelope).object_id)

IngestedDay(envelope) ==
    IF Slice10(EventOf(envelope).date_created) = << >> THEN Today
    ELSE Slice10(EventOf(envelope).date_created)

\* C13: the key of every raw object the ingestion handler wrote for (day, id) has
\* the documented text, is not passed over, parses back to exactly (day, id), and
\* the curated and error keys derived from the parse have the documented texts;
\* the engine handling such a key holds that (day, id) and writes nowhere else.
C13_KeyRoundTrip ==
    /\ \A k \in DOMAIN raw :
          LET day == IngestedDay(raw[k])
              id == IngestedLead(raw[k])
          IN  /\ Render(k) = Documented("lead_created", day, id,
                                         <<"crm_event_">> \o id \o <<".json">>)
              /\ ~ IsSkipped(k) /\ HasValue(k[3]) /\ HasValue(k[4])
              /\ SplitValue(k[3]) = day /\ SplitValue(k[4]) = id
              /\ Render(out_key(SplitValue(k[3]), SplitValue(k[4]))) =
                    Documented("lead_enriched", day, id, <<"lead_">> \o id \o <<".json">>)
              /\ Render(err_key(SplitValue(k[3]), SplitValue(k[4]))) =
                    Documented("errors", day, id, <<"owner_lookup_failed.json">>)
    /\ (pc \notin {"idle", "record", "key"} /\ loc.key \in DOMAIN raw) =>
          LET day == IngestedDay(raw[loc.key])
              id == IngestedLead(raw[loc.key])
          IN  /\ loc.day = day /\ loc.lead_id = id
              /\ \A i \in 1..Len(trace) :
                    trace[i].op = "put_object" =>
                      Render(trace[i].target) \in
                        { Documented("lead_enriched", day, id, <<"lead_">> \o id \o <<".json">>),
                          Documented("errors", day, id, <<"owner_lookup_failed.json">>) }

C13_Witness ==
    /\ pc = "slack"
    /\ loc.key \in DOMAIN raw
    /\ loc.lead_id = <<"L2">>
    /\ Count("put_object") = 2
    /\ out_key(loc.day, loc.lead_id) \in DOMAIN curated
    /\ err_key(loc.day, loc.lead_id) \in DOMAIN errors

\* C19: fetch_owner_json sleeps only after a transient or unknown failure for
\* which an attempt remains: when the call ends, by a result or by an error, it
\* has slept one time fewer than it has attempted, so a call that exhausts its
\* attempts has slept RETRY_TRANSIENT times and not after the final attempt.
C19_SleepsOnlyBeforeRetry ==
    /\ (pc = "sleep") => in_range(fetch.i + 1)
    /\ (pc \in {"except", "enrich"} /\ Count("urlopen") > 0) =>
          Count("sleep") = Count("urlopen") - 1
    /\ (pc = "except" /\ Count("urlopen") = RETRY_TRANSIENT + 1) =>
          Count("sleep") = RETRY_TRANSIENT

StatusOf(lead_id) ==
    IF out_key(Today, lead_id) \in DOMAIN curated
      THEN curated[out_key(Today, lead_id)].owner_lookup_status
      ELSE "none"

\* C17 as stated: between deliveries a lead that has been processed to the end
\* has an error artifact exactly when its most recent completed processing (the
\* one that wrote its curated artifact) ended in a permanent lookup failure; no
\* lead whose curated artifact has status ok has an error artifact.
C17_ErrorIffLastPermanent ==
    Acked =>
      \A l \in Leads :
        /\ StatusOf(l) # "none" =>
              (err_key(Today, l) \in DOMAIN errors <=> StatusOf(l) = "permanent_failed")
        /\ StatusOf(l) = "ok" => err_key(Today, l) \notin DOMAIN errors

\* a step that changes the error store is the handler absorbing a permanent
\* lookup failure of the lead whose error key it writes; no error key goes away
ErrorWriteStep ==
    errors' # errors =>
      /\ pc = "except"
      /\ classify_lookup_error(fetch.last) = "permanent"
      /\ DOMAIN errors' = DOMAIN errors \cup {err_key(loc.day, loc.lead_id)}
      /\ \A k \in DOMAIN errors : k # err_key(loc.day, loc.lead_id) => errors'[k] = errors[k]

\* C17 as amended: an error artifact exists for a lead exactly when some delivery
\* absorbed a permanent lookup failure of that lead and wrote it; the artifact
\* records that failure and stays when a later delivery enriches the lead.
C17_ErrorRecordsPermanentFailure ==
    /\ [](/\ \A k \in DOMAIN errors :
               /\ classify_lookup_error(errors[k].detail) = "permanent"
               /\ errors[k].reason = <<"permanent:", errors[k].detail.cls>>
               /\ k = err_key(SplitValue(k[3]), errors[k].lead_id)
           /\ loc.lookup_status = "permanent_failed" =>
                 err_key(loc.day, loc.lead_id) \in DOMAIN errors)
    /\ [][ErrorWriteStep]_vars

C17_Witness ==
    /\ Acked
    /\ \E l \in Leads :
         /\ StatusOf(l) = "ok"
         /\ err_key(Today, l) \in DOMAIN errors
         /\ curated[out_key(Today, l)].enriched_at > errors[err_key(Today, l)].at

Pos(entry) == <<entry.r, entry.k>>

Before(p, q) == p[1] < q[1] \/ (p[1] = q[1] /\ p[2] < q[2])

Done == {"skipped", "enriched", "permanent_recorded"}

\* once the delivery has failed nothing is touched until the queue delivers
\* again, and that delivery starts with nothing seen
AbortStep ==
    Raised =>
      /\ curated' = curated /\ errors' = errors
      /\ \/ seen' = seen /\ trace' = trace /\ pc' = pc
         \/ deliveries' = deliveries + 1 /\ seen' = << >> /\ trace' = << >>

\* every key seen so far is a key of the event, was taken up after exactly the
\* keys before it, and only the last one may be unfinished
SeenInOrder ==
    \A i \in 1..Len(seen) :
      /\ Pos(seen[i]) \in Referenced
      /\ \A p \in Referenced :
            Before(p, Pos(seen[i])) <=> \E j \in 1..(i - 1) : Pos(seen[j]) = p
      /\ i < Len(seen) => seen[i].fate \in Done

\* the artifacts of the keys handled so far are in the store
WrittenRemain ==
    \A i \in 1..Len(seen) :
      LET day == SplitValue(seen[i].key[3])
          lead_id == SplitValue(seen[i].key[4])
      IN  /\ seen[i].fate \in {"enriched", "permanent_recorded"} =>
                /\ out_key(day, lead_id) \in DOMAIN curated
                /\ curated[out_key(day, lead_id)].lead_id = lead_id
          /\ seen[i].fate = "permanent_recorded" =>
                err_key(day, lead_id) \in DOMAIN errors

\* C20: the keys of a delivery are handled strictly in the order of the event,
\* starting with the first in every delivery, a redelivery included; a key is
\* taken up only when every key before it has been skipped, enriched or
\* recorded; a failure that leaves the handler ends the delivery with no
\* operation for a later key, and the artifacts written for the keys before it
\* are still in the store.
C20_InOrderAbort ==
    /\ [](SeenInOrder /\ WrittenRemain)
    /\ [][AbortStep]_vars

C20_Witness ==
    /\ Raised
    /\ deliveries = 2
    /\ Len(seen) = 2
    /\ seen[1].fate = "enriched"
    /\ seen[2].fate \in {"examining", "raised"}
    /\ out_key(Today, SplitValue(seen[1].key[4])) \in DOMAIN curated

\* the text between the first "@" of s and the next one, or the end, holds a "."
DotAfterFirstAt(s) ==
    \E i \in 1..Len(s) :
      /\ s[i] = "@"
      /\ \A j \in 1..(i - 1) : s[j] # "@"
      /\ \E k \in (i + 1)..Len(s) :
            /\ s[k] = "."
            /\ \A m \in (i + 1)..k : s[m] # "@"

\* C18: clean_email returns the empty string or its input trimmed of surrounding
\* whitespace and lower-cased; it returns the latter, non-empty, exactly when the
\* trimmed lower-cased text holds an "@" and the segment after the first "@"
\* holds a "."; cleaning the returned value again returns it unchanged.
C18_CleanEmail ==
    LET t == IF email.arg.t = "None" THEN << >> ELSE lower(strip(email.arg.s))
    IN  /\ email.first # Unset =>
              /\ email.first \in {<< >>, t}
              /\ email.first # << >> <=> DotAfterFirstAt(t)
        /\ email.second # Unset => email.second = email.first

C18_Witness ==
    /\ email.arg.t = "str"
    /\ email.first # << >>
    /\ email.first # email.arg.s
    /\ Len(split(email.first, "@")) = 3
    /\ email.second = email.first

\* C16: a raw object, once written, is immutable: no step of the ingestion
\* handler or of the engine removes it or changes the content at its key.
C16_RawImmutable ==
    [][\A k \in DOMAIN raw : k \in DOMAIN raw' /\ raw'[k] = raw[k]]_vars

\* the queue gave the message up: its last permitted delivery was not acknowledged
DeadLettered == Raised /\ deliveries = MaxReceives

\* C14: under a queue that redelivers an unacknowledged message up to a ceiling,
\* the message ends acknowledged or dead-lettered; a delivery whose lookup
\* exhausted its attempts on transient errors is never acknowledged (so a
\* message failing so on every delivery ends dead-lettered); a delivery that has
\* recorded a permanent lookup failure for the key it handled last is
\* acknowledged.
C14_AckOrDeadLetter ==
    /\ <>(Acked \/ DeadLettered)
    /\ []((pc = "idle" /\ fetch.i = RETRY_TRANSIENT + 1) => Raised)
    /\ []((pc = "idle" /\ seen # << >> /\ Last(seen).fate = "permanent_recorded") => Acked)

\* the artifacts the two calls are about to write, with their keys
CuratedWrites ==
    { <<out_key(w.day, w.lead_id),
        EnrichedLead(w.lead_id, w.data, w.owner_payload, now, w.lookup_status)>> :
      w \in { x \in {[day |-> loc.day, lead_id |-> loc.lead_id, data |-> loc.data,
                       owner_payload |-> loc.owner_payload,
                       lookup_status |-> loc.lookup_status, at |-> pc],
                      [day |-> peer.day, lead_id |-> peer.lead_id, data |-> peer.data,
                       owner_payload |-> peer.owner_payload,
                       lookup_status |-> peer.lookup_status, at |-> peer.pc]} :
               x.at = "enrich" /\ x.data.t = "dict" } }

ErrorWrites ==
    { <<err_key(w.day, w.lead_id),
        ErrorArtifact(w.lead_id, <<"permanent:", w.last.cls>>, now, w.last)>> :
      w \in { x \in {[day |-> loc.day, lead_id |-> loc.lead_id, last |-> fetch.last,
                       at |-> pc],
                      [day |-> peer.day, lead_id |-> peer.lead_id, last |-> peer.last,
                       at |-> peer.pc]} :
               x.at = "except" } }

\* a step that changes a store puts the whole artifact of one call at its key
\* and leaves every other key as it was
LastWriteWins ==
    /\ curated' # curated =>
          \E w \in CuratedWrites :
            /\ DOMAIN curated' = DOMAIN curated \cup {w[1]}
            /\ curated'[w[1]] = w[2]
            /\ \A k \in DOMAIN curated \ {w[1]} : curated'[k] = curated[k]
    /\ errors' # errors =>
          \E w \in ErrorWrites :
            /\ DOMAIN errors' = DOMAIN errors \cup {w[1]}
            /\ errors'[w[1]] = w[2]
            /\ \A k \in DOMAIN errors \ {w[1]} : errors'[k] = errors[k]

\* every stored artifact has all its fields
WholeArtifacts ==
    /\ \A k \in DOMAIN curated :
          DOMAIN curated[k] = {"lead_id", "display_name", "status_label", "date_created",
                               "lead_email", "lead_owner", "funnel", "assignee",
                               "enriched_at", "owner_lookup_status"}
    /\ \A k \in DOMAIN errors :
          DOMAIN errors[k] = {"lead_id", "reason", "at", "detail"}

\* C15: with two calls of the handler interleaved on the same raw object, each
\* curated or error key holds nothing or one whole artifact, the one written
\* last by one of the calls: every write replaces the object at one key by the
\* artifact of one call, and no lead has artifacts at two keys of a store.
C15_WholeArtifactPerKey ==
    /\ [](WholeArtifacts /\ OneKeyPerLead(curated) /\ OneKeyPerLead(errors))
    /\ [][LastWriteWins]_vars

C15_Witness ==
    /\ pc = "slack"
    /\ peer.pc = "written"
    /\ peer.key = loc.key
    /\ peer.lookup_status = "permanent_failed"
    /\ loc.lookup_status = "ok"
    /\ curated[out_key(loc.day, loc.lead_id)].owner_lookup_status = "ok"
    /\ err_key(loc.day, loc.lead_id) \in DOMAIN errors

\* the key taken last has its curated artifact written
Written == seen # << >> /\ Last(seen).fate \in {"enriched", "permanent_recorded"}

\* C21: for a key that ends enriched or recorded as a permanent failure the
\* handler calls _post_slack exactly once when _slack_url gives it a target, and
\* only after the write of the curated artifact of that key; with no target (no
\* secret configured, or none obtained) it calls nothing and raises nothing.
C21_OneNotificationAfterWrite ==
    /\ Count("post") <= 1
    /\ \A i \in 1..Len(trace) :
          trace[i].op = "post" =>
            /\ Written
            /\ \E j \in 1..(i - 1) :
                  /\ trace[j].op = "put_object"
                  /\ trace[j].target = out_key(loc.day, loc.lead_id)
            /\ out_key(loc.day, loc.lead_id) \in DOMAIN curated
    /\ (Written /\ pc \in {"key", "idle"}) =>
          /\ Count("post") = IF loc.hook = "None" THEN 0 ELSE 1
          /\ loc.hook = "None" => ~ Raised
    /\ SLACK_SECRET_NAME = "None" =>
          loc.hook = "None" /\ Count("get_secret_value") = 0 /\ Count("post") = 0

C21_Witness ==
    /\ pc = "key"
    /\ Written
    /\ Last(seen).fate = "permanent_recorded"
    /\ Count("post") = 1
    /\ trace[Len(trace)].op = "post"
    /\ deliveries = 2

\* C22: the engine never removes an error artifact: a key of the error store is
\* a key of it after every step, also the step that writes a curated artifact
\* with status ok for the same lead.
C22_ErrorArtifactStays ==
    [][\A k \in DOMAIN errors : k \in DOMAIN errors']_vars

C22_Witness ==
    /\ pc = "slack"
    /\ loc.lookup_status = "ok"
    /\ err_key(loc.day, loc.lead_id) \in DOMAIN errors
    /\ errors[err_key(loc.day, loc.lead_id)].at < now
    /\ curated[out_key(loc.day, loc.lead_id)].owner_lookup_status = "ok"

\* the handler has just failed to write the error artifact of the key
ErrorWriteFailed ==
    /\ Raised
    /\ result.exc.cls = "ClientError"
    /\ trace # << >>
    /\ Last(trace) = [op |-> "put_object", target |-> err_key(loc.day, loc.lead_id)]

\* C23: a curated artifact with status permanent_failed has an error artifact
\* at the error key of the same (day, lead_id); for a key whose lookup failed
\* permanently the error artifact is written before the curated artifact, and
\* when the error write fails the handler raises without a curated write for
\* that key.
C23_ErrorBeforeCurated ==
    /\ \A k \in DOMAIN curated :
          curated[k].owner_lookup_status = "permanent_failed" =>
            err_key(SplitValue(k[3]), curated[k].lead_id) \in DOMAIN errors
    /\ \A i \in 1..Len(trace) :
          (/\ trace[i].op = "put_object"
           /\ trace[i].target = out_key(loc.day, loc.lead_id)
           /\ loc.lookup_status = "permanent_failed") =>
            \E j \in 1..(i - 1) :
              trace[j] = [op |-> "put_object", target |-> err_key(loc.day, loc.lead_id)]
    /\ ErrorWriteFailed =>
          /\ loc.lookup_status # "permanent_failed"
          /\ \A i \in 1..Len(trace) : trace[i].target # out_key(loc.day, loc.lead_id)

C23_Witness ==
    /\ ErrorWriteFailed
    /\ out_key(loc.day, loc.lead_id) \in DOMAIN curated
    /\ curated[out_key(loc.day, loc.lead_id)].owner_lookup_status = "permanent_failed"
    /\ curated[out_key(loc.day, loc.lead_id)].enriched_at < now
    /\ err_key(loc.day, loc.lead_id) \in DOMAIN errors

\* the text of the key begins with crm/<area>/
Under(area, key) ==
    /\ Len(Render(key)) >= 4
    /\ SubSeq(Render(key), 1, 4) = <<"crm", "/", area, "/">>

\* a key the engine writes to: under its two output prefixes, not under the raw
\* prefix, and passed over when an event names it
OutputKey(key) ==
    /\ Under("lead_enriched", key) \/ Under("errors", key)
    /\ ~ Under("lead_created", key)
    /\ ~ startswith_RAW_PREFIX(key)
    /\ IsSkipped(key)

OutputsOnly ==
    /\ \A i \in 1..Len(trace) : trace[i].op = "put_object" => OutputKey(trace[i].target)
    /\ \A k \in DOMAIN curated : Under("lead_enriched", k) /\ OutputKey(k)
    /\ \A k \in DOMAIN errors : Under("errors", k) /\ OutputKey(k)
    /\ \A i \in 1..Len(seen) :
          seen[i].key \in DOMAIN curated \cup DOMAIN errors =>
            /\ seen[i].fate = "skipped"
            /\ i = Len(seen) => (trace = << >> \/ pc = "idle")

\* the raw store changes only by a call of the ingestion handler, which adds or
\* replaces one object; no step of the engine writes or deletes a raw object
RawStep ==
    raw' # raw =>
      /\ ingests' = ingests + 1
      /\ DOMAIN raw \subseteq DOMAIN raw'
      /\ UNCHANGED <<curated, errors, pc, trace, seen>>

\* C24: every key the engine writes lies under crm/lead_enriched/ or crm/errors/
\* and not under crm/lead_created/; the engine never writes or deletes a raw
\* object; an event that names one of the engine's own outputs is skipped, with
\* no read, lookup or write for it.
C24_NoSelfTrigger ==
    /\ []OutputsOnly
    /\ [][RawStep]_vars

C24_Witness ==
    /\ pc = "key"
    /\ seen # << >>
    /\ Last(seen).key \in DOMAIN curated
    /\ Last(seen).fate = "skipped"
    /\ trace = << >>
    /\ curated[Last(seen).key].enriched_at = now

====
